---- MODULE Spec2Model ----
(***************************************************************************)
(* Model of the "Page Capture to Click" content script (src/content.js)    *)
(* and of the service worker that answers it (src/background.js).          *)
(*                                                                         *)
(* Every injection of content.js runs the IIFE once.  An injection that    *)
(* finds window.__hvppyCaptureActive false creates an instance: a closure  *)
(* with its own barEl / guideLineEl / progressEl / isCapturing and its own *)
(* onClick and deactivate.  Instances are numbered in injection order.     *)
(* The asynchronous onClick / performCapture of an instance is a process   *)
(* whose position (the await it is suspended at) is inst[k].pc.            *)
(*                                                                         *)
(* Two awaits with no code between them (waitForPaint then delay) are one  *)
(* position.  The page is one scroll offset and NumEls elements; nothing   *)
(* but the script scrolls it or restyles it.  Not modelled: onMouseMove    *)
(* and the guide line, the display property of the progress overlay, the   *)
(* colours of the canvas, the file name built by the service worker.       *)
(*                                                                         *)
(* The stitchers and findScrollContainer are pure functions of their       *)
(* arguments and are checked in specifications of their own.  A canvas is  *)
(* its height and the row ranges drawn on it.  devicePixelRatio is the     *)
(* rational dprNum / dprDen; Math.ceil and Math.round are computed on it   *)
(* exactly.                                                                *)
(***************************************************************************)
EXTENDS Integers, Sequences, FiniteSets, TLC

\* ---- bounds of the model ------------------------------------------------
MaxInst == 3        \* instances (injections that found the flag false)
MaxClicks == 2      \* clicks that start a pipeline
StepSize == 2       \* scrollCtx.scrollStep: viewport / container height
MaxScroll == 1      \* largest scroll offset the platform allows
MaxTarget == 3      \* largest target offset a click can produce
NumEls == 2         \* page elements other than the script's own UI
MaxT == 12          \* largest targetY given to the scroll-position loop on its own
MaxS == 5           \* largest scrollStep given to the scroll-position loop on its own
MaxPx == 5          \* largest target and frame offset (CSS px) given to a stitcher
MaxImg == 4         \* largest frame height (device px) given to a stitcher
MaxFrames == 2      \* most frames given to a stitcher
MaxDprNum == 3      \* devicePixelRatio is dprNum / dprDen, dprNum in 1..MaxDprNum
MaxTop == 1         \* largest containerTop (rect.top of the container)
NumNodes == 3       \* elements below body given to findScrollContainer
SmallBudget == 2    \* a visit budget and queue cap that cut the walk of NumNodes nodes

\* ---- constants of the program --------------------------------------------
DocSlack == 50          \* docEl.scrollHeight > window.innerHeight + 50
VisitBudget == 2000     \* while (queue.length > 0 && count < 2000)
OverflowSlack == 10     \* el.scrollHeight > el.clientHeight + 10
MinClientHeight == 100  \* el.clientHeight > 100
QueueCap == 4000        \* queue.length < 4000

Insts == 1..MaxInst
Els == 1..NumEls

\* ---- inline visibility of an element: value and priority ------------------
Absent == [value |-> "", priority |-> ""]
StyleStates ==
    {Absent} \cup [value : {"visible", "hidden"}, priority : {"", "important"}]

\* What an element is to hideOverlayElements:
\*   fixed        computed position fixed or sticky
\*   sibling      child of an ancestor of the scroll container, off the
\*                container's path, whose box overlaps the container's
\*   fixedSibling both
\*   own          id starts with "hvppy-"
\*   plain        none of these
LayoutKinds == {"fixed", "sibling", "fixedSibling", "own", "plain"}

VARIABLES
    hvppyCaptureActive,      \* window.__hvppyCaptureActive
    hvppyCaptureDeactivate,  \* window.__hvppyCaptureDeactivate: 0 undefined, else the instance whose deactivate it is
    nInst,                   \* instances created so far
    nClicks,                 \* pipelines started so far
    inst,                    \* per instance: closure variables and the locals of its onClick / performCapture
    scrollTop,               \* scroll offset of the element that scrolls (window.scrollY or container.scrollTop)
    ctxType,                 \* what createScrollContext resolves on this page: "window" or "container"
    layout,                  \* element -> LayoutKinds
    vis,                     \* element -> inline visibility (el.style)
    callPhase,               \* a function called on its own: "none", "ready", then what has run
    callData                 \* its arguments and results

vars == <<hvppyCaptureActive, hvppyCaptureDeactivate, nInst, nClicks, inst,
          scrollTop, ctxType, layout, vis, callPhase, callData>>

\* ---- pure helpers ----------------------------------------------------------
Min(a, b) == IF a < b THEN a ELSE b
Max(a, b) == IF a > b THEN a ELSE b

\* window.scrollTo / container.scrollTo clamp the offset to the scrollable range
ClampScroll(y) == Min(Max(y, 0), MaxScroll)

\* performCapture: let y = 0; while (y < targetY) { push(y); y += scrollStep }
RECURSIVE BuildPositions(_, _, _, _)
\* variant: while (y <= targetY)
BuildPositionsOffByOne(acc, y, targetY, scrollStep) ==
    IF y <= targetY
    THEN BuildPositions(Append(acc, y), y + scrollStep, targetY, scrollStep)
    ELSE acc
BuildPositions(acc, y, targetY, scrollStep) ==
    IF y < targetY
    THEN BuildPositions(Append(acc, y), y + scrollStep, targetY, scrollStep)
    ELSE acc

\* performCapture's scrollPositions, with the fallback push(0) for an empty list
ScrollPositions(targetY, scrollStep) ==
    LET built == BuildPositions(<<>>, 0, targetY, scrollStep)
    IN  IF Len(built) = 0 THEN <<0>> ELSE built

\* performCapture: if (targetY <= 0) { showProgress('Invalid click position'); ... return; }
\* variant: targetY < 0
InvalidTargetStrict(targetY) == targetY < 0
InvalidTarget(targetY) == targetY <= 0

\* scrollCtx.getTargetY(e): e.pageY for the window, container.scrollTop +
\* (e.clientY - rect.top) for a container; y is e.pageY resp. e.clientY - rect.top
GetTargetY(type, y, st) == IF type = "container" THEN st + y ELSE y

\* ---- hideOverlayElements / restoreHiddenElements ------------------------
IsFixedOrSticky(kind) == kind \in {"fixed", "fixedSibling"}
IsOverlappingSibling(kind) == kind \in {"sibling", "fixedSibling"}
IsOwn(kind) == kind = "own"

\* el.style.setProperty('visibility', 'hidden', 'important')
ForcedHidden == [value |-> "hidden", priority |-> "important"]

\* hidden.some(h => h.el === el)
InHidden(hidden, el) == \E n \in 1..Len(hidden) : hidden[n].el = el

\* pass 1: every element, in document order, whose computed position is
\* fixed or sticky; the record keeps el.style.visibility, the value alone
RECURSIVE HideFixed(_, _, _, _)
HideFixed(el, hidden, v, lay) ==
    IF el > NumEls THEN [hidden |-> hidden, vis |-> v]
    ELSE IF IsOwn(lay[el]) \/ ~IsFixedOrSticky(lay[el])
         THEN HideFixed(el + 1, hidden, v, lay)
         ELSE HideFixed(el + 1,
                        Append(hidden, [el |-> el, prev |-> v[el].value]),
                        [v EXCEPT ![el] = ForcedHidden], lay)

\* pass 2: the overlapping siblings met on the walk from the container up,
\* skipping those pass 1 has recorded
RECURSIVE HideSiblings(_, _, _, _)
HideSiblings(el, hidden, v, lay) ==
    IF el > NumEls THEN [hidden |-> hidden, vis |-> v]
    ELSE IF IsOwn(lay[el]) \/ InHidden(hidden, el) \/ ~IsOverlappingSibling(lay[el])
         THEN HideSiblings(el + 1, hidden, v, lay)
         ELSE HideSiblings(el + 1,
                           Append(hidden, [el |-> el, prev |-> v[el].value]),
                           [v EXCEPT ![el] = ForcedHidden], lay)

hideOverlayElements(type, v, lay) ==
    LET p1 == HideFixed(1, <<>>, v, lay)
    IN  IF type = "container" THEN HideSiblings(1, p1.hidden, p1.vis, lay) ELSE p1

\* for (const {el, prev} of hidden): prev ? el.style.visibility = prev
\*                                        : el.style.removeProperty('visibility')
RECURSIVE restoreHiddenElements(_, _)
restoreHiddenElements(hidden, v) ==
    IF Len(hidden) = 0 THEN v
    ELSE LET h == Head(hidden)
         IN  restoreHiddenElements(Tail(hidden),
                 [v EXCEPT ![h.el] = IF h.prev # ""
                                     THEN [value |-> h.prev, priority |-> ""]
                                     ELSE Absent])

\* ---- instances ---------------------------------------------------------------
\* Closure variables: listeners (mousemove and click installed on document),
\* ui (barEl, guideLineEl, progressEl created and attached; null when FALSE),
\* barShown (barEl.style.display is not 'none'), progressText, isCapturing,
\* cancelBtn (the instance whose Cancel button activate() found by id and put
\* this instance's listener on; 0 before activate()).
\* Locals of onClick / performCapture / stitchCaptures: the rest.
NoInst ==
    [created |-> FALSE, listeners |-> FALSE, ui |-> FALSE, barShown |-> FALSE,
     progressText |-> "", isCapturing |-> FALSE, cancelBtn |-> 0, pc |-> "idle",
     targetY |-> 0, originalScroll |-> 0, scrollPositions |-> <<>>, i |-> 0,
     actualScrollY |-> 0, hiddenEls |-> <<>>, captures |-> <<>>, loaded |-> 0,
     error |-> "", snapCount |-> 0, stitchCalls |-> 0, downloadCount |-> 0]

\* the locals of a pipeline: out of scope once onClick has returned
ClearLocals(r) ==
    [r EXCEPT !.targetY = 0, !.originalScroll = 0, !.scrollPositions = <<>>,
              !.i = 0, !.actualScrollY = 0, !.hiddenEls = <<>>,
              !.captures = <<>>, !.loaded = 0, !.error = "",
              !.snapCount = 0, !.stitchCalls = 0, !.downloadCount = 0]

PipelinePcs == {"invalid", "settle", "hidePaint", "snapshot", "decode",
                "download", "saved", "failed"}
Running(k) == inst[k].pc \in PipelinePcs

\* showProgress(text): a no-op once progressEl is null
showProgress(r, text) == IF r.ui THEN [r EXCEPT !.progressText = text] ELSE r

\* hideInteractiveUI()
hideInteractiveUI(r) == IF r.ui THEN [r EXCEPT !.barShown = FALSE] ELSE r

\* the closure part of deactivate(): listeners and elements removed,
\* element variables null, isCapturing false
deactivate(r) ==
    [r EXCEPT !.listeners = FALSE, !.ui = FALSE, !.barShown = FALSE,
              !.progressText = "", !.isCapturing = FALSE]

Init ==
    /\ hvppyCaptureActive = FALSE
    /\ hvppyCaptureDeactivate = 0
    /\ nInst = 0
    /\ nClicks = 0
    /\ inst = [k \in Insts |-> NoInst]
    /\ scrollTop \in 0..MaxScroll
    /\ ctxType \in {"window", "container"}
    /\ layout = [e \in Els |-> IF e = 1 THEN "fixed" ELSE "sibling"]
    /\ vis = [e \in Els |-> Absent]
    /\ callPhase = "none"
    /\ callData = <<>>

\* ---- the IIFE: an activation trigger injects content.js ---------------------
\* flag set: call the exposed deactivate and return
InjectToggle ==
    /\ hvppyCaptureActive
    /\ IF hvppyCaptureDeactivate # 0
       THEN /\ inst' = [inst EXCEPT ![hvppyCaptureDeactivate] = deactivate(@)]
            /\ hvppyCaptureActive' = FALSE
       ELSE UNCHANGED <<inst, hvppyCaptureActive>>
    /\ UNCHANGED <<hvppyCaptureDeactivate, nInst, nClicks, scrollTop, ctxType,
                   layout, vis, callPhase, callData>>

\* document.getElementById('hvppy-cancel-btn') in activate() of instance n: the
\* first such button in document order.  Every bar is appended to the end of
\* documentElement, so it is the button of the oldest instance whose bar is
\* still attached, or the new instance's own.
FirstCancelBtn(n) ==
    LET bars == {k \in Insts : inst[k].ui} \cup {n}
    IN  CHOOSE k \in bars : \A m \in bars : k <= m

\* flag clear: set it, create the closure, expose deactivate, activate()
InjectActivate ==
    /\ ~hvppyCaptureActive
    /\ nInst < MaxInst
    /\ hvppyCaptureActive' = TRUE
    /\ nInst' = nInst + 1
    /\ hvppyCaptureDeactivate' = nInst + 1
    /\ inst' = [inst EXCEPT ![nInst + 1] =
                   [NoInst EXCEPT !.created = TRUE, !.listeners = TRUE,
                                  !.ui = TRUE, !.barShown = TRUE,
                                  !.cancelBtn = FirstCancelBtn(nInst + 1)]]
    /\ UNCHANGED <<nClicks, scrollTop, ctxType, layout, vis, callPhase, callData>>

\* the Cancel button of the visible bar of instance k: every onClick returns
\* at the own-UI test, then each listener put on that button calls the
\* deactivate() of its instance
CancelClick(k) ==
    /\ inst[k].ui /\ inst[k].barShown
    /\ \E m \in Insts : inst[m].cancelBtn = k
    /\ inst' = [m \in Insts |->
                   IF inst[m].cancelBtn = k THEN deactivate(inst[m]) ELSE inst[m]]
    /\ hvppyCaptureActive' = FALSE
    /\ UNCHANGED <<hvppyCaptureDeactivate, nInst, nClicks, scrollTop, ctxType,
                   layout, vis, callPhase, callData>>

\* ---- onClick -----------------------------------------------------------------
\* The click listeners are capture-phase listeners on document and run in the
\* order they were added.  A handler that returns early lets the next one run;
\* one that goes on calls e.stopImmediatePropagation().
Handlers == {k \in Insts : inst[k].listeners}
Takers == {k \in Handlers : ~inst[k].isCapturing}
FirstTaker == CHOOSE k \in Takers : \A m \in Takers : k <= m

\* values of e.pageY (window) or e.clientY - rect.top (container) a click carries
ClickYs == (0 - 1 - MaxScroll)..MaxTarget
ValidClickY(y) ==
    LET t == GetTargetY(ctxType, y, scrollTop)
    IN  /\ t <= MaxTarget
        /\ t >= (IF ctxType = "container" THEN 0 - 1 ELSE 0)

\* one iteration of the capture loop up to its first await: showProgress,
\* setScroll(scrollPositions[i]), then waitForPaint and delay(300)
BeginStep(r) == [showProgress(r, "Capturing") EXCEPT !.pc = "settle"]
StepScroll(r) == ClampScroll(r.scrollPositions[r.i + 1])

\* e.target.closest('#hvppy-capture-bar') || e.target.closest('#hvppy-progress');
\* inChrome says whether the click target lies inside one of the two
\* variant: an own-UI test that never matches
OwnUINever(inChrome) == FALSE
OwnUI(inChrome) == inChrome

\* click inside #hvppy-capture-bar or #hvppy-progress, or every handler is capturing
ClickIgnored(inChrome) ==
    /\ Handlers # {}
    /\ OwnUI(inChrome) \/ Takers = {}
    /\ UNCHANGED vars

\* onClick up to the first await of performCapture
ClickTarget(y) ==
    /\ Takers # {}
    /\ nClicks < MaxClicks
    /\ ValidClickY(y)
    /\ LET k == FirstTaker
           targetY == GetTargetY(ctxType, y, scrollTop)
           r1 == [inst[k] EXCEPT !.isCapturing = TRUE, !.targetY = targetY,
                                 !.originalScroll = scrollTop]
           r2 == showProgress(hideInteractiveUI(r1), "Preparing")
       IN  IF InvalidTarget(targetY)
           THEN /\ inst' = [inst EXCEPT ![k] =
                       [showProgress(r2, "Invalid click position")
                           EXCEPT !.pc = "invalid"]]
                /\ UNCHANGED scrollTop
           ELSE LET r3 == [r2 EXCEPT
                             !.scrollPositions = ScrollPositions(targetY, StepSize),
                             !.i = 0, !.captures = <<>>]
                IN  /\ inst' = [inst EXCEPT ![k] = BeginStep(r3)]
                    /\ scrollTop' = StepScroll(r3)
    /\ nClicks' = nClicks + 1
    /\ UNCHANGED <<hvppyCaptureActive, hvppyCaptureDeactivate, nInst, ctxType,
                   layout, vis, callPhase, callData>>

\* ---- performCapture ------------------------------------------------------------
\* after waitForPaint and delay(300): read the offset back, hide the overlays
AfterSettle(k) ==
    /\ inst[k].pc = "settle"
    /\ LET h == hideOverlayElements(ctxType, vis, layout)
       IN  /\ inst' = [inst EXCEPT ![k] =
                   [@ EXCEPT !.actualScrollY = scrollTop, !.hiddenEls = h.hidden,
                             !.pc = "hidePaint"]]
           /\ vis' = h.vis
    /\ UNCHANGED <<hvppyCaptureActive, hvppyCaptureDeactivate, nInst, nClicks,
                   scrollTop, ctxType, layout, callPhase, callData>>

\* after waitForPaint and delay(50): sendMessage({action: 'captureTab'})
SendCaptureTab(k) ==
    /\ inst[k].pc = "hidePaint"
    /\ inst' = [inst EXCEPT ![k] =
           [@ EXCEPT !.snapCount = @ + 1, !.pc = "snapshot"]]
    /\ UNCHANGED <<hvppyCaptureActive, hvppyCaptureDeactivate, nInst, nClicks,
                   scrollTop, ctxType, layout, vis, callPhase, callData>>

\* stitchCaptures up to its first await: loadImage(captures[0].dataUrl)
BeginStitch(r) ==
    [showProgress(r, "Stitching") EXCEPT !.stitchCalls = @ + 1, !.loaded = 0,
                                         !.pc = "decode"]

\* the catch block of onClick up to delay(2000)
\* variant: a catch that returns from onClick, skipping the code after it
CatchAndReturn(r, kind) ==
    [showProgress(r, "Capture failed") EXCEPT !.error = kind, !.pc = "idle"]
Catch(r, kind) ==
    [showProgress(r, "Capture failed") EXCEPT !.error = kind, !.pc = "failed"]

\* variant: a loop body without the test of response.error: the failed step
\* is passed over and the loop goes on
SnapshotResponseNoThrow(k, ok) ==
    /\ inst[k].pc = "snapshot"
    /\ vis' = restoreHiddenElements(inst[k].hiddenEls, vis)
    /\ LET r1 == [inst[k] EXCEPT !.hiddenEls = <<>>]
           r2 == [r1 EXCEPT !.captures = IF ok THEN Append(@, r1.actualScrollY) ELSE @,
                            !.i = @ + 1]
       IN  IF r2.i < Len(r2.scrollPositions)
           THEN /\ inst' = [inst EXCEPT ![k] = BeginStep(r2)]
                /\ scrollTop' = StepScroll(r2)
           ELSE /\ inst' = [inst EXCEPT ![k] = BeginStitch(r2)]
                /\ UNCHANGED scrollTop
    /\ UNCHANGED <<hvppyCaptureActive, hvppyCaptureDeactivate, nInst, nClicks,
                   ctxType, layout, callPhase, callData>>
\* the service worker answers {dataUrl} or {error}; the loop body after the await
SnapshotResponse(k, ok) ==
    /\ inst[k].pc = "snapshot"
    /\ vis' = restoreHiddenElements(inst[k].hiddenEls, vis)
    /\ LET r1 == [inst[k] EXCEPT !.hiddenEls = <<>>]
       IN  IF ~ok
           THEN /\ inst' = [inst EXCEPT ![k] = Catch(r1, "snapshot")]
                /\ UNCHANGED scrollTop
           ELSE LET r2 == [r1 EXCEPT !.captures = Append(@, r1.actualScrollY),
                                     !.i = @ + 1]
                IN  IF r2.i < Len(r2.scrollPositions)
                    THEN /\ inst' = [inst EXCEPT ![k] = BeginStep(r2)]
                         /\ scrollTop' = StepScroll(r2)
                    ELSE /\ inst' = [inst EXCEPT ![k] = BeginStitch(r2)]
                         /\ UNCHANGED scrollTop
    /\ UNCHANGED <<hvppyCaptureActive, hvppyCaptureDeactivate, nInst, nClicks,
                   ctxType, layout, callPhase, callData>>

\* loadImage settles: onload resolves, onerror rejects.  After the last image
\* the canvas is encoded and sendMessage({action: 'download'}) goes out.
ImageLoaded(k, ok) ==
    /\ inst[k].pc = "decode"
    /\ IF ~ok
       THEN inst' = [inst EXCEPT ![k] = Catch(@, "decode")]
       ELSE LET r1 == [inst[k] EXCEPT !.loaded = @ + 1]
            IN  IF r1.loaded < Len(r1.captures)
                THEN inst' = [inst EXCEPT ![k] = r1]
                ELSE inst' = [inst EXCEPT ![k] =
                         [showProgress(r1, "Saving")
                             EXCEPT !.downloadCount = @ + 1, !.pc = "download"]]
    /\ UNCHANGED <<hvppyCaptureActive, hvppyCaptureDeactivate, nInst, nClicks,
                   scrollTop, ctxType, layout, vis, callPhase, callData>>

\* the service worker answers {status: 'ok'} or {error}; the answer is not read
DownloadResponse(k, ok) ==
    /\ inst[k].pc = "download"
    /\ inst' = [inst EXCEPT ![k] =
           [showProgress(@, "Saved") EXCEPT !.pc = "saved"]]
    /\ UNCHANGED <<hvppyCaptureActive, hvppyCaptureDeactivate, nInst, nClicks,
                   scrollTop, ctxType, layout, vis, callPhase, callData>>

\* ---- the end of onClick ----------------------------------------------------------
\* after delay(1000) / delay(2000): scrollCtx.setScroll(originalScroll); deactivate()
\* variant: the end of onClick without scrollCtx.setScroll(originalScroll)
FinishNoScroll(k) ==
    /\ inst[k].pc \in {"invalid", "saved", "failed"}
    /\ inst' = [inst EXCEPT ![k] = [ClearLocals(deactivate(@)) EXCEPT !.pc = "idle"]]
    /\ hvppyCaptureActive' = FALSE
    /\ UNCHANGED <<hvppyCaptureDeactivate, nInst, nClicks, scrollTop, ctxType,
                   layout, vis, callPhase, callData>>
\* the end of onClick as written
Finish(k) ==
    /\ inst[k].pc \in {"invalid", "saved", "failed"}
    /\ scrollTop' = ClampScroll(inst[k].originalScroll)
    /\ inst' = [inst EXCEPT ![k] = [ClearLocals(deactivate(@)) EXCEPT !.pc = "idle"]]
    /\ hvppyCaptureActive' = FALSE
    /\ UNCHANGED <<hvppyCaptureDeactivate, nInst, nClicks, ctxType, layout, vis,
                   callPhase, callData>>

Next ==
    \/ InjectToggle
    \/ InjectActivate
    \/ \E k \in Insts : CancelClick(k)
    \/ \E b \in BOOLEAN : ClickIgnored(b)
    \/ \E y \in ClickYs : ClickTarget(y)
    \/ \E k \in Insts : AfterSettle(k)
    \/ \E k \in Insts : SendCaptureTab(k)
    \/ \E k \in Insts, ok \in BOOLEAN : SnapshotResponse(k, ok)
    \/ \E k \in Insts, ok \in BOOLEAN : ImageLoaded(k, ok)
    \/ \E k \in Insts, ok \in BOOLEAN : DownloadResponse(k, ok)
    \/ \E k \in Insts : Finish(k)

Spec == Init /\ [][Next]_vars

\* every await of a pipeline settles: timers fire, the service worker answers,
\* images load or fail to
PipelineStep(k) ==
    \/ AfterSettle(k)
    \/ SendCaptureTab(k)
    \/ \E ok \in BOOLEAN : SnapshotResponse(k, ok)
    \/ \E ok \in BOOLEAN : ImageLoaded(k, ok)
    \/ \E ok \in BOOLEAN : DownloadResponse(k, ok)
    \/ Finish(k)

FairSpec == Spec /\ \A k \in Insts : WF_vars(PipelineStep(k))

\* ---- the scroll-position loop called on its own ------------------------------
BaseState ==
    /\ hvppyCaptureActive = FALSE
    /\ hvppyCaptureDeactivate = 0
    /\ nInst = 0
    /\ nClicks = 0
    /\ inst = [k \in Insts |-> NoInst]
    /\ scrollTop = 0

InitSteps ==
    /\ BaseState
    /\ ctxType = "window"
    /\ layout = [e \in Els |-> "plain"]
    /\ vis = [e \in Els |-> Absent]
    /\ callPhase = "ready"
    /\ callData \in [targetY : 1..MaxT, scrollStep : 1..MaxS, scrollPositions : {<<>>}]

CallScrollPositions ==
    /\ callPhase = "ready"
    /\ callPhase' = "built"
    /\ callData' = [callData EXCEPT !.scrollPositions =
                       ScrollPositions(callData.targetY, callData.scrollStep)]
    /\ UNCHANGED <<hvppyCaptureActive, hvppyCaptureDeactivate, nInst, nClicks,
                   inst, scrollTop, ctxType, layout, vis>>

NextSteps == CallScrollPositions

SpecSteps == InitSteps /\ [][NextSteps]_vars

\* ---- hideOverlayElements and restoreHiddenElements called on their own ------
InitHide ==
    /\ BaseState
    /\ ctxType \in {"window", "container"}
    /\ layout \in [Els -> LayoutKinds]
    /\ vis \in [Els -> StyleStates]
    /\ callPhase = "ready"
    /\ callData = [before |-> vis, hidden |-> <<>>]

CallHide ==
    /\ callPhase = "ready"
    /\ LET h == hideOverlayElements(ctxType, vis, layout)
       IN  /\ vis' = h.vis
           /\ callData' = [callData EXCEPT !.hidden = h.hidden]
    /\ callPhase' = "hidden"
    /\ UNCHANGED <<hvppyCaptureActive, hvppyCaptureDeactivate, nInst, nClicks,
                   inst, scrollTop, ctxType, layout>>

CallRestore ==
    /\ callPhase = "hidden"
    /\ vis' = restoreHiddenElements(callData.hidden, vis)
    /\ callPhase' = "restored"
    /\ UNCHANGED <<hvppyCaptureActive, hvppyCaptureDeactivate, nInst, nClicks,
                   inst, scrollTop, ctxType, layout, callData>>

NextHide == CallHide \/ CallRestore

SpecHide == InitHide /\ [][NextHide]_vars

\* ===========================================================================
\* The stitchers called on their own
\* ===========================================================================
DprDens == {1, 2}

\* Math.ceil(x * dpr) and Math.round(x * dpr) for dpr = n / d
CeilScaled(x, n, d) == (x * n + d - 1) \div d
RoundScaled(x, n, d) == (2 * x * n + d) \div (2 * d)

\* stitchWindowScroll: drawHeight = Math.min(img.height, availableHeight)
\* variant: the frame drawn whole
DrawHeightUnclipped(imgHeight, availableHeight) == imgHeight
\* variant: a frame that does not fit whole is not drawn
DrawHeightWholeOnly(imgHeight, availableHeight) ==
    IF imgHeight <= availableHeight THEN imgHeight ELSE 0
DrawHeight(imgHeight, availableHeight) == Min(imgHeight, availableHeight)

\* stitchWindowScroll: the loop over captures; a drawImage call is kept as the
\* frame's number, its first canvas row and its height
RECURSIVE DrawFrames(_, _, _, _, _, _, _)
DrawFrames(f, captures, imgHeight, canvasHeight, n, d, draws) ==
    IF f > Len(captures) THEN draws
    ELSE LET drawY == RoundScaled(captures[f], n, d)
             availableHeight == canvasHeight - drawY
             drawHeight == DrawHeight(imgHeight, availableHeight)
         IN  DrawFrames(f + 1, captures, imgHeight, canvasHeight, n, d,
                        IF drawHeight > 0
                        THEN Append(draws, [frame |-> f, drawY |-> drawY,
                                            drawHeight |-> drawHeight])
                        ELSE draws)

stitchWindowScroll(captures, imgHeight, targetY, n, d) ==
    LET canvasHeight == CeilScaled(targetY, n, d)
    IN  [empty |-> FALSE, canvasHeight |-> canvasHeight, lastCropHeight |-> 0,
         draws |-> DrawFrames(1, captures, imgHeight, canvasHeight, n, d, <<>>)]

\* stitchContainerScroll: Math.min(Math.ceil(clickInViewport * dpr), imgHeight)
\* variant: the crop row not limited to the frame
LastCropHeightUnclamped(clickInViewport, imgHeight, n, d) ==
    CeilScaled(clickInViewport, n, d)
LastCropHeight(clickInViewport, imgHeight, n, d) ==
    Min(CeilScaled(clickInViewport, n, d), imgHeight)

\* stitchContainerScroll: '' for no images, else the frames stacked, the last
\* one cropped at the click row
stitchContainerScroll(captures, imgHeight, targetY, n, d, containerTop) ==
    IF Len(captures) = 0
    THEN [empty |-> TRUE, canvasHeight |-> 0, lastCropHeight |-> 0, draws |-> <<>>]
    ELSE LET clickInContainer == targetY - captures[Len(captures)]
             clickInViewport == containerTop + clickInContainer
             lastCropHeight == LastCropHeight(clickInViewport, imgHeight, n, d)
         IN  [empty |-> FALSE,
              canvasHeight |-> (Len(captures) - 1) * imgHeight + lastCropHeight,
              lastCropHeight |-> lastCropHeight,
              draws |-> [f \in 1..Len(captures) |->
                           [frame |-> f, drawY |-> (f - 1) * imgHeight,
                            drawHeight |-> IF f < Len(captures) THEN imgHeight
                                           ELSE lastCropHeight]]]

\* sequences of at most MaxFrames frame offsets
FrameSeqs == UNION {[1..m -> 0..MaxPx] : m \in 0..MaxFrames}

NoCanvas == [empty |-> TRUE, canvasHeight |-> 0, lastCropHeight |-> 0, draws |-> <<>>]

InitStitch ==
    /\ BaseState
    /\ ctxType \in {"window", "container"}
    /\ layout = [e \in Els |-> "plain"]
    /\ vis = [e \in Els |-> Absent]
    /\ callPhase = "ready"
    /\ callData \in [captures : FrameSeqs, imgHeight : 1..MaxImg,
                     targetY : 1..MaxPx, dprNum : 1..MaxDprNum, dprDen : DprDens,
                     containerTop : 0..MaxTop, out : {NoCanvas}]
    /\ ctxType = "window" => callData.containerTop = 0

\* stitchCaptures with scrollCtx.type 'window'
CallStitchWindow ==
    /\ callPhase = "ready"
    /\ ctxType = "window"
    /\ callPhase' = "stitched"
    /\ callData' = [callData EXCEPT !.out =
           stitchWindowScroll(callData.captures, callData.imgHeight,
                              callData.targetY, callData.dprNum, callData.dprDen)]
    /\ UNCHANGED <<hvppyCaptureActive, hvppyCaptureDeactivate, nInst, nClicks,
                   inst, scrollTop, ctxType, layout, vis>>

\* stitchCaptures with scrollCtx.type 'container'
CallStitchContainer ==
    /\ callPhase = "ready"
    /\ ctxType = "container"
    /\ callPhase' = "stitched"
    /\ callData' = [callData EXCEPT !.out =
           stitchContainerScroll(callData.captures, callData.imgHeight,
                                 callData.targetY, callData.dprNum,
                                 callData.dprDen, callData.containerTop)]
    /\ UNCHANGED <<hvppyCaptureActive, hvppyCaptureDeactivate, nInst, nClicks,
                   inst, scrollTop, ctxType, layout, vis>>

NextStitch == CallStitchWindow \/ CallStitchContainer

SpecStitch == InitStitch /\ [][NextStitch]_vars

\* ===========================================================================
\* Window mode: the capture loop and the stitcher on a page of a given height
\* ===========================================================================
\* window.scrollTo(0, y) on a page contentHeight high in a viewport innerHeight
\* high, then window.scrollY read back
ScrollYAfter(y, contentHeight, innerHeight) ==
    Min(Max(y, 0), Max(contentHeight - innerHeight, 0))

\* the offsets the loop of performCapture records, one per scroll position
ActualOffsets(positions, contentHeight, innerHeight) ==
    [f \in 1..Len(positions) |-> ScrollYAfter(positions[f], contentHeight, innerHeight)]

InitTile ==
    /\ BaseState
    /\ ctxType = "window"
    /\ layout = [e \in Els |-> "plain"]
    /\ vis = [e \in Els |-> Absent]
    /\ callPhase = "ready"
    /\ \E innerHeight \in 1..MaxS, contentHeight \in 1..MaxT :
          /\ innerHeight <= contentHeight
          /\ callData \in [innerHeight : {innerHeight}, contentHeight : {contentHeight},
                           targetY : 1..contentHeight, dprNum : 1..MaxDprNum,
                           captures : {<<>>}, out : {NoCanvas}]

\* performCapture for a window scroll context: the positions, the offsets read
\* back, one frame innerHeight * dpr high per step, then stitchWindowScroll
CallCaptureWindow ==
    /\ callPhase = "ready"
    /\ callPhase' = "stitched"
    /\ LET positions == ScrollPositions(callData.targetY, callData.innerHeight)
           captures == ActualOffsets(positions, callData.contentHeight,
                                     callData.innerHeight)
       IN  callData' = [callData EXCEPT
               !.captures = captures,
               !.out = stitchWindowScroll(captures,
                           callData.innerHeight * callData.dprNum,
                           callData.targetY, callData.dprNum, 1)]
    /\ UNCHANGED <<hvppyCaptureActive, hvppyCaptureDeactivate, nInst, nClicks,
                   inst, scrollTop, ctxType, layout, vis>>

NextTile == CallCaptureWindow

SpecTile == InitTile /\ [][NextTile]_vars

\* ===========================================================================
\* findScrollContainer called on its own
\* ===========================================================================
\* The tree below body: nodes 1..NumNodes, parent[n] the parent of n (0 is
\* body), children in node order.  An element is its id and the four layout
\* values the function reads.
Nodes == 1..NumNodes

Shapes ==
    LET h == MinClientHeight + 1
        over == h + OverflowSlack + 1
    IN  {[id |-> "", overflowY |-> "visible", clientHeight |-> h,
          scrollHeight |-> over, clientWidth |-> 2],
         [id |-> "", overflowY |-> "auto", clientHeight |-> MinClientHeight,
          scrollHeight |-> MinClientHeight + OverflowSlack + 1, clientWidth |-> 2],
         [id |-> "", overflowY |-> "scroll", clientHeight |-> h,
          scrollHeight |-> h + OverflowSlack, clientWidth |-> 2],
         [id |-> "hvppy-progress", overflowY |-> "auto", clientHeight |-> h,
          scrollHeight |-> over, clientWidth |-> 3],
         [id |-> "", overflowY |-> "scroll", clientHeight |-> h,
          scrollHeight |-> over, clientWidth |-> 1],
         [id |-> "", overflowY |-> "overlay", clientHeight |-> h,
          scrollHeight |-> over, clientWidth |-> 2],
         [id |-> "", overflowY |-> "auto", clientHeight |-> h,
          scrollHeight |-> over, clientWidth |-> 0]}

Trees == {p \in [Nodes -> 0..(NumNodes - 1)] : \A n \in Nodes : p[n] < n}

\* isDocumentScrollable(): excess is docEl.scrollHeight - window.innerHeight
isDocumentScrollable(bothHidden, excess) ==
    IF bothHidden THEN FALSE ELSE excess > DocSlack

\* el.id && el.id.startsWith('hvppy-')
HasOwnId(el) == el.id = "hvppy-progress"

\* the test of lines 64-66
Scrollable(el) ==
    /\ el.overflowY \in {"auto", "scroll", "overlay"}
    /\ el.scrollHeight > el.clientHeight + OverflowSlack
    /\ el.clientHeight > MinClientHeight

Area(el) == el.clientHeight * el.clientWidth

\* if (area > maxArea)
\* variant: area >= maxArea
LargerOrEqual(area, maxArea) == area >= maxArea
Larger(area, maxArea) == area > maxArea

\* el.children (n = 0: document.body.children), in document order
RECURSIVE ChildrenFrom(_, _, _)
ChildrenFrom(parent, n, m) ==
    IF m > NumNodes THEN <<>>
    ELSE IF parent[m] = n THEN <<m>> \o ChildrenFrom(parent, n, m + 1)
         ELSE ChildrenFrom(parent, n, m + 1)
Children(parent, n) == ChildrenFrom(parent, n, 1)

\* for (i = 0; i < el.children.length && queue.length < cap; i++) queue.push(...)
RECURSIVE Enqueue(_, _, _)
Enqueue(queue, children, cap) ==
    IF Len(children) = 0 \/ Len(queue) >= cap THEN queue
    ELSE Enqueue(Append(queue, Head(children)), Tail(children), cap)

\* the while loop; visited is the sequence of elements shifted off the queue,
\* so count is its length; best = 0 is null
RECURSIVE Walk(_, _, _, _, _, _, _, _)
Walk(parent, shape, queue, best, maxArea, visited, budget, cap) ==
    IF Len(queue) = 0 \/ Len(visited) >= budget
    THEN [best |-> best, visited |-> visited]
    ELSE LET n == Head(queue)
             el == shape[n]
             seen == Append(visited, n)
         IN  IF HasOwnId(el)
             THEN Walk(parent, shape, Tail(queue), best, maxArea, seen, budget, cap)
             ELSE LET take == Scrollable(el) /\ Larger(Area(el), maxArea)
                  IN  Walk(parent, shape,
                           Enqueue(Tail(queue), Children(parent, n), cap),
                           IF take THEN n ELSE best,
                           IF take THEN Area(el) ELSE maxArea,
                           seen, budget, cap)

findScrollContainer(parent, shape, bothHidden, excess, budget, cap) ==
    IF isDocumentScrollable(bothHidden, excess)
    THEN [best |-> 0, visited |-> <<>>]
    ELSE Walk(parent, shape, Children(parent, 0), 0, 0, <<>>, budget, cap)

InitFind ==
    /\ BaseState
    /\ ctxType = "window"
    /\ layout = [e \in Els |-> "plain"]
    /\ vis = [e \in Els |-> Absent]
    /\ callPhase = "ready"
    /\ callData \in [parent : Trees, shape : [Nodes -> Shapes],
                     bothHidden : BOOLEAN, excess : {DocSlack, DocSlack + 1},
                     budget : {SmallBudget, VisitBudget},
                     cap : {SmallBudget, QueueCap},
                     best : {0}, visited : {<<>>}]

CallFindScrollContainer ==
    /\ callPhase = "ready"
    /\ callPhase' = "found"
    /\ LET r == findScrollContainer(callData.parent, callData.shape,
                                    callData.bothHidden, callData.excess,
                                    callData.budget, callData.cap)
       IN  callData' = [callData EXCEPT !.best = r.best, !.visited = r.visited]
    /\ UNCHANGED <<hvppyCaptureActive, hvppyCaptureDeactivate, nInst, nClicks,
                   inst, scrollTop, ctxType, layout, vis>>

NextFind == CallFindScrollContainer

SpecFind == InitFind /\ [][NextFind]_vars

\* ===========================================================================
\* Properties
\* ===========================================================================
CeilDiv(a, b) == (a + b - 1) \div b

\* C1 (SpecSteps): for every target offset T > 0 and step size S > 0 the loop
\* of performCapture builds exactly ceil(T / S) scroll positions, and position
\* i (0-based) is i * S, so they increase; S = 800, T = 1850 gives 0, 800, 1600.
C1_StepCount ==
    callPhase = "built" =>
        LET p == callData.scrollPositions
        IN  /\ Len(p) = CeilDiv(callData.targetY, callData.scrollStep)
            /\ \A n \in 1..Len(p) : p[n] = (n - 1) * callData.scrollStep
            /\ ScrollPositions(1850, 800) = <<0, 800, 1600>>

\* a target that is an exact multiple of the step: two positions, not three
C1_Witness ==
    /\ callPhase = "built"
    /\ callData.targetY = 2 * callData.scrollStep
    /\ callData.scrollStep = 3
    /\ callData.scrollPositions = <<0, 3>>

\* C2 (Spec): when the snapshot request of step k (1-based; k = i + 1) answers
\* with an error, the session ends having made exactly k snapshot requests, no
\* call of the stitcher and no download request, and its last step sets the
\* scroll offset to the value read when the click was handled.
SnapshotFailed(k) == inst[k].pc = "failed" /\ inst[k].error = "snapshot"

C2_SnapshotFailure ==
    [][\A k \in Insts :
          /\ SnapshotFailed(k) =>
                /\ inst[k].snapCount = inst[k].i + 1
                /\ inst[k].stitchCalls = 0
                /\ inst[k].downloadCount = 0
          /\ (SnapshotFailed(k) /\ inst'[k].pc # "failed") =>
                /\ inst'[k].pc = "idle"
                /\ scrollTop' = inst[k].originalScroll]_vars

\* the second of two steps has failed, away from the offset to return to
C2_Witness ==
    \E k \in Insts :
        /\ SnapshotFailed(k)
        /\ inst[k].i = 1
        /\ Len(inst[k].scrollPositions) = 2
        /\ inst[k].snapCount = 2
        /\ scrollTop # inst[k].originalScroll

\* C3 (Spec): a click whose target offset is <= 0 makes no snapshot request,
\* never calls the stitcher, makes no download request, and the next thing its
\* session does is end: listeners and UI removed, flags false.
C3_InvalidTarget ==
    [][\A k \in Insts :
          /\ (Running(k) /\ inst[k].targetY <= 0) =>
                /\ inst[k].pc = "invalid"
                /\ inst[k].snapCount = 0
                /\ inst[k].stitchCalls = 0
                /\ inst[k].downloadCount = 0
          /\ (inst[k].pc = "invalid" /\ inst'[k].pc # "invalid") =>
                /\ inst'[k].pc = "idle"
                /\ ~inst'[k].listeners /\ ~inst'[k].ui /\ ~inst'[k].isCapturing
                /\ ~hvppyCaptureActive']_vars

\* a click at offset 0 is waiting out its message
C3_Witness ==
    \E k \in Insts :
        /\ inst[k].pc = "invalid"
        /\ inst[k].targetY = 0
        /\ inst[k].isCapturing
        /\ inst[k].progressText = "Invalid click position"

\* ---- sessions ---------------------------------------------------------------
\* an activation trigger is one run of the IIFE
Trigger == InjectToggle \/ InjectActivate

\* instance k is a session waiting for its click
AwaitingClick(k) ==
    inst[k].listeners /\ inst[k].ui /\ ~inst[k].isCapturing /\ inst[k].pc = "idle"

\* instance k is a session in the capturing state
Capturing(k) == inst[k].isCapturing /\ Running(k)

\* instance k is a session: waiting for its click, or with a pipeline running
Session(k) == inst[k].listeners \/ inst[k].ui \/ Running(k)

\* C4 (Spec): an activation trigger received while a session is waiting for
\* its click ends that session: its listeners and UI are removed, the active
\* flag becomes false, the trigger creates no instance, and the session has
\* made no snapshot and no download request.
C4_TriggerEndsAwaitingSession ==
    [][\A k \in Insts :
          (Trigger /\ AwaitingClick(k)) =>
              /\ ~inst'[k].listeners /\ ~inst'[k].ui
              /\ ~hvppyCaptureActive'
              /\ nInst' = nInst
              /\ inst'[k].snapCount = 0 /\ inst'[k].downloadCount = 0]_vars

\* C5 (Spec): an activation trigger received while a session is capturing
\* changes nothing: not the active flag, not the session's isCapturing,
\* listeners or UI elements, not its pipeline.
C5_TriggerIgnoredWhileCapturing ==
    [][\A k \in Insts :
          (Trigger /\ Capturing(k)) =>
              /\ inst'[k] = inst[k]
              /\ hvppyCaptureActive' = hvppyCaptureActive]_vars

\* C6 (Spec): at most one capture pipeline runs at any time, so at most one
\* snapshot request is in flight and no two pipelines have scroll offset or
\* visibility changes outstanding together.
C6_OnePipeline ==
    /\ Cardinality({k \in Insts : Running(k)}) <= 1
    /\ Cardinality({k \in Insts : inst[k].pc = "snapshot"}) <= 1

\* C7 (Spec): at most one instance has its listeners and UI installed, and an
\* activation trigger that arrives while a session exists creates no instance.
C7_OneSession ==
    [][/\ Cardinality({k \in Insts : inst[k].listeners \/ inst[k].ui}) <= 1
       /\ (Trigger /\ \E k \in Insts : Session(k)) => nInst' = nInst]_vars

\* C8 (Spec): suppression windows never overlap: when hideOverlayElements has
\* hidden elements for one snapshot, the records of no other step are
\* outstanding, and no element is in two outstanding record sets.
HiddenEls(k) == {inst[k].hiddenEls[n].el : n \in 1..Len(inst[k].hiddenEls)}

C8_NoOverlappingSuppression ==
    \A j, k \in Insts :
        j # k => (HiddenEls(j) = {} \/ HiddenEls(k) = {})

\* C9 (SpecHide): whatever the inline visibility (value and priority, or
\* absent) of the elements, restoreHiddenElements applied to the records of
\* hideOverlayElements leaves every recorded element as it was before, and
\* every recorded element is in exactly one record.
C9_RestoreIsIdentity ==
    callPhase = "restored" =>
        LET h == callData.hidden
        IN  /\ \A n \in 1..Len(h) : vis[h[n].el] = callData.before[h[n].el]
            /\ \A m, n \in 1..Len(h) : h[m].el = h[n].el => m = n

\* C10 (FairSpec): once a click has started a pipeline, and every await of it
\* settles, the pipeline ends; the step that ends it sets the scroll offset to
\* the offset read when the click was handled and leaves the session inactive:
\* flag false, isCapturing false, listeners and UI removed.  This covers the
\* success path, the snapshot, decode and download failures and the invalid
\* target.
C10_EventuallyInactive ==
    /\ \A k \in Insts : Running(k) ~> ~Running(k)
    /\ [][\A k \in Insts :
             (Running(k) /\ ~Running(k)') =>
                 /\ inst[k].pc \in {"invalid", "saved", "failed"}
                 /\ scrollTop' = inst[k].originalScroll
                 /\ ~hvppyCaptureActive'
                 /\ ~inst'[k].isCapturing
                 /\ ~inst'[k].listeners /\ ~inst'[k].ui]_vars

\* a pipeline whose image failed to decode is about to end, away from the
\* offset it has to return to
C10_Witness ==
    \E k \in Insts :
        /\ inst[k].pc = "failed"
        /\ inst[k].error = "decode"
        /\ scrollTop # inst[k].originalScroll

\* ---- teardown -----------------------------------------------------------------
\* deactivate() has run for instance k: only it removes the listeners
TornDown(k) == inst[k].created /\ ~inst[k].listeners /\ ~inst[k].ui

\* this step runs the deactivate() of instance k: from the IIFE guard, from the
\* end of k's onClick, or from a Cancel button carrying k's listener
DeactivateRuns(k) ==
    \/ InjectToggle /\ hvppyCaptureDeactivate = k
    \/ Finish(k)
    \/ \E j \in Insts : CancelClick(j) /\ inst[k].cancelBtn = j

\* C11 (Spec): teardown runs once per session: deactivate() is never run for
\* a session it has already torn down, wherever the session ends, and the
\* deactivate() of one session never clears the active flag that another,
\* still installed session has set.
C11_TeardownOnce ==
    [][\A k \in Insts :
          DeactivateRuns(k) =>
              /\ ~TornDown(k)
              /\ \A j \in Insts : (j # k /\ inst'[j].listeners) => hvppyCaptureActive']_vars

\* C12 (Spec): when the download request is answered with an error, the
\* session shows the failure message and does not report the capture as saved.
C12_DownloadFailureSurfaces ==
    [][\A k \in Insts :
          (DownloadResponse(k, FALSE) /\ inst[k].ui) =>
              /\ inst'[k].progressText # "Saved"
              /\ inst'[k].progressText = "Capture failed"]_vars

\* C15 (Spec): the answer to a snapshot request, success or error, restores
\* the elements hidden for that step and empties the record before the frame
\* is appended or the error is thrown; so an element of the page carries an
\* inline visibility only while a pipeline holds a record for it, and none
\* does once the pipelines have ended.
C15_NothingLeftSuppressed ==
    \A e \in Els : vis[e] # Absent => \E k \in Insts : e \in HiddenEls(k)

\* deactivate() has run for instance k while its pipeline is still running
Cancelled(k) == Running(k) /\ ~inst[k].listeners

\* C16 (Spec): once a deactivation has arrived during a capture, the request
\* in flight may settle, but the pipeline starts no further step, snapshot
\* request, stitch or download request.
C16_CancelObservedBetweenSteps ==
    [][\A k \in Insts :
          Cancelled(k) =>
              /\ ~(inst[k].pc # "settle" /\ inst'[k].pc = "settle")
              /\ inst'[k].snapCount <= inst[k].snapCount
              /\ inst'[k].stitchCalls <= inst[k].stitchCalls
              /\ inst'[k].downloadCount <= inst[k].downloadCount]_vars

\* the pipeline of k has every frame: stitching, saving or saved
AllFramesTaken(k) == inst[k].pc \in {"decode", "download", "saved"}

\* C17 (Spec): the n-th frame records the offset the scroll context reports
\* after scrolling to the n-th position, i.e. that position clamped to the
\* scrollable range; recorded offsets never exceed the requested ones and
\* never decrease, and a pipeline that reaches the stitcher has one frame per
\* position.
C17_FramesRecordActualOffsets ==
    \A k \in Insts :
        LET c == inst[k].captures
            p == inst[k].scrollPositions
        IN  /\ Len(c) <= Len(p)
            /\ \A n \in 1..Len(c) :
                  /\ c[n] = ClampScroll(p[n])
                  /\ c[n] <= p[n]
                  /\ n > 1 => c[n - 1] <= c[n]
            /\ AllFramesTaken(k) => Len(c) = Len(p)

\* ---- clicks ----------------------------------------------------------------------
\* the steps a click with the given target and position can make: every handler
\* returns early, or the first handler that does not return early goes on
ClickEvent(inChrome, y) ==
    \/ ClickIgnored(inChrome)
    \/ ~OwnUI(inChrome) /\ ClickTarget(y)

IsCeilScaled(h, x, n, d) == h * d >= x * n /\ (h - 1) * d < x * n

\* the drawImage calls recorded for frame f
DrawsOf(out, f) == {m \in 1..Len(out.draws) : out.draws[m].frame = f}

\* C13 (SpecStitch): in window mode the canvas height is ceil(T * dpr) for
\* every target T > 0, whatever the frames and their offsets; a frame is drawn
\* from row round(offset * dpr) with height min(frameHeight, height - row),
\* once, and is not drawn when that is <= 0; so nothing is drawn below the
\* last row of the canvas.
C13_WindowHeight ==
    (callPhase = "stitched" /\ ctxType = "window") =>
        LET out == callData.out
            n == callData.dprNum
            d == callData.dprDen
        IN  /\ ~out.empty
            /\ IsCeilScaled(out.canvasHeight, callData.targetY, n, d)
            /\ \A f \in 1..Len(callData.captures) :
                  LET row == RoundScaled(callData.captures[f], n, d)
                      h == Min(callData.imgHeight, out.canvasHeight - row)
                  IN  IF h <= 0 THEN DrawsOf(out, f) = {}
                      ELSE /\ Cardinality(DrawsOf(out, f)) = 1
                           /\ \A m \in DrawsOf(out, f) :
                                 /\ out.draws[m].drawY = row
                                 /\ out.draws[m].drawHeight = h
            /\ \A m \in 1..Len(out.draws) :
                  /\ out.draws[m].drawHeight > 0
                  /\ out.draws[m].drawY >= 0
                  /\ out.draws[m].drawY + out.draws[m].drawHeight <= out.canvasHeight

\* two frames stitched at a fractional dpr: one is clipped, the other dropped
C13_Witness ==
    /\ callPhase = "stitched" /\ ctxType = "window"
    /\ callData.dprDen = 2 /\ callData.dprNum = 3
    /\ Len(callData.captures) = 2
    /\ Len(callData.out.draws) = 1
    /\ callData.out.draws[1].drawHeight < callData.imgHeight
    /\ (callData.targetY * callData.dprNum) % callData.dprDen # 0

\* C14 (SpecStitch): in container mode, for one frame or more, the canvas
\* height is (frames - 1) * frameHeight + lastCropHeight, where lastCropHeight
\* is min(ceil((containerTop + T - lastFrame.offset) * dpr), frameHeight), so
\* at most frameHeight; 2 frames of height 600 with click row 340 give 940.
C14_ContainerHeight ==
    /\ stitchContainerScroll(<<0, 600>>, 600, 940, 1, 1, 0).canvasHeight = 940
    /\ (callPhase = "stitched" /\ ctxType = "container"
            /\ Len(callData.captures) >= 1) =>
        LET out == callData.out
            frames == Len(callData.captures)
            x == callData.containerTop + callData.targetY - callData.captures[frames]
        IN  /\ ~out.empty
            /\ out.canvasHeight = (frames - 1) * callData.imgHeight + out.lastCropHeight
            /\ out.lastCropHeight <= callData.imgHeight
            /\ \E c \in (0 - MaxPx * MaxDprNum)..((MaxPx + MaxTop) * MaxDprNum) :
                  /\ IsCeilScaled(c, x, callData.dprNum, callData.dprDen)
                  /\ out.lastCropHeight = Min(c, callData.imgHeight)

\* two frames stacked at a fractional dpr; the click row falls inside the last
\* frame, which is cropped there
C14_Witness ==
    /\ callPhase = "stitched" /\ ctxType = "container"
    /\ callData.dprDen = 2 /\ callData.dprNum = 3
    /\ Len(callData.captures) = 2
    /\ callData.containerTop > 0
    /\ callData.out.lastCropHeight > 0
    /\ callData.out.lastCropHeight < callData.imgHeight
    /\ callData.out.canvasHeight = callData.imgHeight + callData.out.lastCropHeight

\* canvas row r lies inside a drawImage call
RowDrawn(out, r) ==
    \E m \in 1..Len(out.draws) :
        out.draws[m].drawY <= r /\ r < out.draws[m].drawY + out.draws[m].drawHeight

\* C18 (SpecTile): in window mode with frames one viewport high, an integer
\* dpr, scrolling clamped to contentHeight - innerHeight and a target
\* 0 < T <= contentHeight, every row of the canvas, 0 to ceil(T * dpr) - 1,
\* lies inside a drawn frame.
C18_NoGap ==
    callPhase = "stitched" =>
        /\ callData.out.canvasHeight = callData.targetY * callData.dprNum
        /\ \A r \in 0..(callData.out.canvasHeight - 1) : RowDrawn(callData.out, r)

\* three frames or more at dpr 2 or more, the last one read back at a clamped
\* offset and clipped at the target row
C18_Witness ==
    /\ callPhase = "stitched"
    /\ callData.dprNum >= 2
    /\ Len(callData.captures) >= 3
    /\ callData.captures[Len(callData.captures)]
           < (Len(callData.captures) - 1) * callData.innerHeight
    /\ Len(callData.out.draws) = Len(callData.captures)
    /\ callData.out.draws[Len(callData.out.draws)].drawHeight
           < callData.innerHeight * callData.dprNum

\* ---- findScrollContainer ---------------------------------------------------------
\* the call has walked a document that does not scroll
Walked ==
    /\ callPhase = "found"
    /\ ~isDocumentScrollable(callData.bothHidden, callData.excess)

\* positions in the visit order of the elements that qualify
Qualifying ==
    {p \in 1..Len(callData.visited) :
        LET el == callData.shape[callData.visited[p]]
        IN  ~HasOwnId(el) /\ Scrollable(el)}

VisitedArea(p) == Area(callData.shape[callData.visited[p]])

\* the result is the first visited element of largest area among candidates,
\* none if there are no candidates
FirstLargest(candidates) ==
    IF candidates = {} THEN callData.best = 0
    ELSE \E p \in candidates :
            /\ callData.best = callData.visited[p]
            /\ \A q \in candidates :
                  /\ VisitedArea(q) <= VisitedArea(p)
                  /\ VisitedArea(q) = VisitedArea(p) => p <= q

\* the visit order is breadth-first below body, without the subtrees of the
\* script's own elements, and ends at the budget
BoundedWalk ==
    /\ Len(callData.visited) <= callData.budget
    /\ callData.budget = VisitBudget => Len(callData.visited) <= 2000
    /\ \A p, q \in 1..Len(callData.visited) :
          p < q => callData.visited[p] # callData.visited[q]
    /\ \A q \in 1..Len(callData.visited) :
          LET up == callData.parent[callData.visited[q]]
          IN  up # 0 => /\ ~HasOwnId(callData.shape[up])
                        /\ \E p \in 1..(q - 1) : callData.visited[p] = up

\* C20 as stated (SpecFind): for a document that does not scroll, the result
\* is the first visited qualifying element of largest clientHeight *
\* clientWidth, none when no visited element qualifies, and at most 2000
\* elements are visited.
C20_LargestQualifying ==
    Walked => FirstLargest(Qualifying) /\ BoundedWalk

\* C20 (SpecFind): for a document that does not scroll, the result is the
\* first visited qualifying element of largest area among those whose area is
\* more than zero, none when no visited qualifying element has an area above
\* zero, and at most 2000 elements are visited.
C20_LargestPositiveArea ==
    Walked => FirstLargest({p \in Qualifying : VisitedArea(p) > 0}) /\ BoundedWalk

\* the walk has ended at its budget; two visited elements qualify with the
\* same largest area, the first of them is the result, and an element below
\* the first level has been visited
C20_Witness ==
    /\ Walked
    /\ callData.best # 0
    /\ Len(callData.visited) = callData.budget
    /\ \E p, q \in Qualifying :
          /\ p < q
          /\ callData.best = callData.visited[p]
          /\ VisitedArea(q) = VisitedArea(p)
    /\ \E p \in 1..Len(callData.visited) :
          callData.parent[callData.visited[p]] # 0

\* ---- the stitcher and the download request seen from performCapture --------------
\* this step calls stitchCaptures for instance k
StitchInvoked(k) == inst'[k].stitchCalls > inst[k].stitchCalls

\* this step sends the download request of instance k
DownloadSent(k) == inst'[k].downloadCount > inst[k].downloadCount

\* this step starts a pipeline in instance k
PipelineStarts(k) == ~Running(k) /\ inst'[k].pc \in PipelinePcs

\* C21 (Spec): stitchCaptures is called with one frame per scroll position
\* and at least one, so stitchContainerScroll never takes its no-images
\* return; the download request is sent once per pipeline, after every
\* snapshot request has been answered without error and every image has
\* loaded; and an instance starts a pipeline only while its listener is
\* installed, which it never is again after its pipeline has started, so a
\* session sends at most one download request.
C21_StitchAndDownloadOnce ==
    [][\A k \in Insts :
          /\ StitchInvoked(k) =>
                /\ inst[k].stitchCalls = 0
                /\ Len(inst'[k].captures) >= 1
                /\ Len(inst'[k].captures) = Len(inst'[k].scrollPositions)
                /\ ~stitchContainerScroll(inst'[k].captures, 1, inst'[k].targetY,
                                          1, 1, 0).empty
          /\ DownloadSent(k) =>
                /\ inst[k].downloadCount = 0
                /\ inst'[k].downloadCount = 1
                /\ inst[k].stitchCalls = 1
                /\ inst[k].error = ""
                /\ inst[k].snapCount = Len(inst[k].scrollPositions)
                /\ Len(inst[k].captures) = Len(inst[k].scrollPositions)
                /\ inst'[k].loaded = Len(inst[k].captures)
          /\ PipelineStarts(k) => inst[k].listeners /\ ~inst[k].isCapturing
          /\ (Running(k) \/ (inst[k].created /\ ~inst[k].listeners))
                => (inst'[k].isCapturing \/ ~inst'[k].listeners)]_vars

\* the download request of a pipeline of two steps is in flight
C21_Witness ==
    \E k \in Insts :
        /\ inst[k].pc = "download"
        /\ inst[k].downloadCount = 1
        /\ inst[k].stitchCalls = 1
        /\ Len(inst[k].captures) = 2
        /\ inst[k].loaded = 2

TypeOK ==
    /\ hvppyCaptureActive \in BOOLEAN
    /\ hvppyCaptureDeactivate \in 0..MaxInst
    /\ scrollTop \in 0..MaxScroll
    /\ \A e \in Els : vis[e] \in StyleStates

====
